---- MODULE Spec2Model ----
(***************************************************************************)
(* SecureBot (src/bot.py): the per-message pipeline, the anti-spam counter *)
(* and the deferred deletion, as a state machine.                          *)
(*                                                                         *)
(* Time is counted in microseconds, the resolution of datetime.  The       *)
(* telegram Application built at bot.py:367 handles one update at a time,  *)
(* so one handler invocation is in progress at most (pc, upd, cnt, trace); *)
(* the deletion tasks started with asyncio.create_task run beside it.      *)
(***************************************************************************)
EXTENDS Integers, Sequences, FiniteSets, TLC

\* ---------------------------------------------------------------- bounds
MaxMsgs == 3
MaxFlood == 7
MaxNowSec == 12
MaxFloodSec == 21
SeedAgeSec == 1
MaxCmdMsgs == 2
MaxCmdSec == 1

\* ------------------------------------------------------ program constants
SPAM_LIMIT == 6
SPAM_WINDOW_SEC == 10
AUTO_DELETE_SECONDS == 12
MUTE_MINUTES == 10
TicksPerSec == 1000000
ADMIN_ID == 9

Users == {1, 2}
NoUser == 0
None == "None"

\* The updates the platform delivers: user 1 writes in two chats and changes
\* its profile in between, user 2 writes in one, and a channel post has no
\* effective user.
Updates ==
    { [user |-> 1, chat |-> -100, text |-> <<"H", "i">>,
       profile |-> [username |-> "alice", first_name |-> "Al", last_name |-> None]],
      [user |-> 1, chat |-> -200, text |-> <<"o", "k">>,
       profile |-> [username |-> None, first_name |-> "Alice", last_name |-> "A"]],
      [user |-> 2, chat |-> -100, text |-> <<"h", "e", "l", "p">>,
       profile |-> [username |-> "bo", first_name |-> "Bo", last_name |-> None]],
      [user |-> NoUser, chat |-> -100, text |-> <<"o", "k">>,
       profile |-> [username |-> None, first_name |-> None, last_name |-> None]] }

\* A flood: one user repeating a message in one chat, another user beside it.
FloodUpdates == { m \in Updates : m.chat = -100 /\ m.user # NoUser }

WindowTicks == SPAM_WINDOW_SEC * TicksPerSec
Gaps ==
    { WindowTicks - 1, WindowTicks, WindowTicks + 1,
      AUTO_DELETE_SECONDS * TicksPerSec }
FloodGaps == { WindowTicks, WindowTicks + 1 }

\* ------------------------------------------------------------ timestamps
\* a timestamp cut to whole seconds
isoformatSeconds(t) == << t \div TicksPerSec >>

\* datetime.isoformat(): seconds, then the microseconds only when non-zero.
isoformat(t) ==
    IF t % TicksPerSec = 0
    THEN << t \div TicksPerSec >>
    ELSE << t \div TicksPerSec, t % TicksPerSec >>

\* datetime.fromisoformat() raises ValueError on anything else.
CanParse(s) ==
    /\ Len(s) \in {1, 2}
    /\ Len(s) = 2 => s[2] \in 0 .. (TicksPerSec - 1)

fromisoformat(s) ==
    IF Len(s) = 1 THEN s[1] * TicksPerSec ELSE s[1] * TicksPerSec + s[2]

\* ---------------------------------------------------------------- tables
\* an UPDATE without its WHERE clause: the row written to every key
UpsertAll(tbl, key, row) == [k \in DOMAIN tbl \cup {key} |-> row]

Upsert(tbl, key, row) ==
    [k \in DOMAIN tbl \cup {key} |-> IF k = key THEN row ELSE tbl[k]]

OrEmpty(x) == IF x = None THEN "" ELSE x

\* INSERT OR REPLACE: the last write wins
save_userReplace(tbl, user_id, profile, now) ==
    Upsert(tbl, user_id,
           [username |-> OrEmpty(profile.username),
            first_name |-> OrEmpty(profile.first_name),
            last_name |-> OrEmpty(profile.last_name),
            added_at |-> isoformat(now)])

\* INSERT OR IGNORE INTO users ...
save_user(tbl, user_id, profile, now) ==
    IF user_id \in DOMAIN tbl
    THEN tbl
    ELSE Upsert(tbl, user_id,
                [username |-> OrEmpty(profile.username),
                 first_name |-> OrEmpty(profile.first_name),
                 last_name |-> OrEmpty(profile.last_name),
                 added_at |-> isoformat(now)])

RECURSIVE Ascending(_)
Ascending(S) ==
    IF S = {} THEN << >>
    ELSE LET m == CHOOSE x \in S : \A y \in S : x <= y
         IN  << m >> \o Ascending(S \ {m})

\* SELECT user_id FROM users: sqlite scans the table in key order
get_all_user_ids(tbl) == Ascending(DOMAIN tbl)

\* ------------------------------------------------------------- anti-spam
\* a reset already at the boundary
ExpiredAtBoundary(now, last) == (now - last) >= WindowTicks

\* a reset one tick late
ExpiredLate(now, last) == (now - last) > WindowTicks + 1

\* a window that never expires
ExpiredNever(now, last) == FALSE

Expired(now, last) == (now - last) > WindowTicks

\* an increment that leaves last_ts as it was
spam_record_and_checkKeepsTs(tbl, user_id, now) ==
    IF user_id \notin DOMAIN tbl
    THEN [tbl |-> Upsert(tbl, user_id, [count |-> 1, last_ts |-> isoformat(now)]),
          ret |-> 1]
    ELSE LET count == tbl[user_id].count
             last_ts == tbl[user_id].last_ts
             last == IF CanParse(last_ts) THEN fromisoformat(last_ts) ELSE now
         IN  IF Expired(now, last)
             THEN [tbl |-> Upsert(tbl, user_id,
                                  [count |-> 1, last_ts |-> isoformat(now)]),
                   ret |-> 1]
             ELSE [tbl |-> Upsert(tbl, user_id,
                                  [count |-> count + 1, last_ts |-> last_ts]),
                   ret |-> count + 1]

\* two evaluations at one instant that both read the count before either
\* writes: the second write repeats the first
spam_record_and_checkLost(tbl, user_id, now) ==
    IF user_id \notin DOMAIN tbl
    THEN [tbl |-> Upsert(tbl, user_id, [count |-> 1, last_ts |-> isoformat(now)]),
          ret |-> 1]
    ELSE LET count == tbl[user_id].count
             last_ts == tbl[user_id].last_ts
             last == IF CanParse(last_ts) THEN fromisoformat(last_ts) ELSE now
         IN  IF Expired(now, last)
             THEN [tbl |-> Upsert(tbl, user_id,
                                  [count |-> 1, last_ts |-> isoformat(now)]),
                   ret |-> 1]
             ELSE IF now = last
             THEN [tbl |-> tbl, ret |-> count]
             ELSE [tbl |-> Upsert(tbl, user_id,
                                  [count |-> count + 1, last_ts |-> isoformat(now)]),
                   ret |-> count + 1]

spam_record_and_check(tbl, user_id, now) ==
    IF user_id \notin DOMAIN tbl
    THEN [tbl |-> Upsert(tbl, user_id, [count |-> 1, last_ts |-> isoformat(now)]),
          ret |-> 1]
    ELSE LET count == tbl[user_id].count
             last_ts == tbl[user_id].last_ts
             last == IF CanParse(last_ts) THEN fromisoformat(last_ts) ELSE now
         IN  IF Expired(now, last)
             THEN [tbl |-> Upsert(tbl, user_id,
                                  [count |-> 1, last_ts |-> isoformat(now)]),
                   ret |-> 1]
             ELSE [tbl |-> Upsert(tbl, user_id,
                                  [count |-> count + 1, last_ts |-> isoformat(now)]),
                   ret |-> count + 1]

\* the limit itself still allowed
IsSpamStrict(count) == count > SPAM_LIMIT

\* only the message that reaches the limit
IsSpamOnce(count) == count = SPAM_LIMIT

IsSpam(count) == count >= SPAM_LIMIT

\* ------------------------------------------------------------ auto-reply
lower(c) ==
    CASE c = "H" -> "h"
      [] c = "I" -> "i"
      [] OTHER -> c

LowerText(t) == [i \in 1 .. Len(t) |-> lower(t[i])]

Contains(k, t) ==
    \E i \in 1 .. (Len(t) - Len(k) + 1) : SubSeq(t, i, i + Len(k) - 1) = k

\* the replies dict, in its insertion order
replies ==
    << [k |-> <<"h", "i">>, v |-> "Hello!"],
       [k |-> <<"h", "e", "l", "l", "o">>, v |-> "Hi there"],
       [k |-> <<"h", "o", "w", " ", "a", "r", "e", " ", "y", "o", "u">>,
        v |-> "I'm fine"],
       [k |-> <<"h", "e", "l", "p">>, v |-> "Use /help" ] >>

\* the first key of replies found in the lowered text, or None
auto_reply(t) ==
    LET text == LowerText(t)
        hits == { i \in 1 .. Len(replies) : Contains(replies[i].k, text) }
    IN  IF hits = {} THEN None
        ELSE replies[CHOOSE i \in hits : \A j \in hits : i <= j].v

\* ----------------------------------------------------------------- state
VARIABLES
    clock,      \* datetime.now(timezone.utc), in microseconds
    users,      \* table users: user_id -> row
    spam,       \* table spam: user_id -> [count, last_ts]
    pc,         \* where pipeline_handlers stands
    upd,        \* the update being handled
    cnt,        \* pipeline_handlers' local cnt
    trace,      \* what this invocation has done so far, in order
    nextId,     \* message ids handed out by the platform
    tasks,      \* auto_delete_handler tasks asleep: [msg, chat, due]
    deleted,    \* messages the platform deleted
    bcast,      \* cmd_broadcast's locals: users still to send to, msg, sent
    evals,      \* history: evaluations of each user that returned
    lastTs,     \* history: time of each user's last evaluation that returned
    run,        \* history: evaluations in the user's current run of in-window gaps
    verdicts,   \* history: throttle verdicts in that run
    apart,      \* history: every gap of the user so far exceeded the window
    throttled   \* history: users that ever got a throttle verdict

vars ==
    << clock, users, spam, pc, upd, cnt, trace, nextId, tasks, deleted, bcast,
       evals, lastTs, run, verdicts, apart, throttled >>

db == << users, spam >>
hist == << evals, lastTs, run, verdicts, apart, throttled >>

Idle == { "idle", "returned", "raised" }

NoBroadcast == [todo |-> << >>, msg |-> << >>, sent |-> 0]

NoUpdate == [id |-> 0, user |-> NoUser, chat |-> 0, text |-> << >>,
             profile |-> [username |-> None, first_name |-> None, last_name |-> None]]

\* The sqlite file outlives the process (init_db: CREATE TABLE IF NOT EXISTS),
\* so the bot starts on the rows an earlier run left: none, or user 1's row
\* after n messages, the last of them SeedAgeSec before the start.
SeedCounts == { 0, 1, SPAM_LIMIT - 2 }
SeedTs == 0 - SeedAgeSec * TicksPerSec
SeedProfile == [username |-> "alice", first_name |-> "Al", last_name |-> None]

InitSeed(n) ==
    /\ clock = 0
    /\ users = IF n = 0 THEN << >> ELSE save_user(<< >>, 1, SeedProfile, SeedTs)
    /\ spam = IF n = 0 THEN << >>
              ELSE (1 :> [count |-> n, last_ts |-> isoformat(SeedTs)])
    /\ pc = "idle"
    /\ upd = NoUpdate
    /\ cnt = 0
    /\ trace = << >>
    /\ nextId = 1
    /\ tasks = {}
    /\ deleted = {}
    /\ bcast = NoBroadcast
    /\ evals = [u \in Users |-> IF u = 1 THEN n ELSE 0]
    /\ lastTs = [u \in Users |-> IF u = 1 /\ n > 0 THEN SeedTs ELSE 0]
    /\ run = [u \in Users |-> IF u = 1 THEN n ELSE 0]
    /\ verdicts = [u \in Users |-> 0]
    /\ apart = [u \in Users |-> u # 1 \/ n <= 1]
    /\ throttled = {}

Init == \E n \in SeedCounts : InitSeed(n)

InitFlood == InitSeed(0)

\* ------------------------------------------------------------------ time
Tick(g) ==
    /\ clock' = clock + g
    /\ UNCHANGED << db, pc, upd, cnt, trace, nextId, tasks, deleted, hist, bcast >>

\* -------------------------------------------------------------- pipeline
\* MessageHandler(filters.TEXT & ~filters.COMMAND, pipeline_handlers)
Receive(m) ==
    /\ pc \in Idle
    /\ upd' = [id |-> nextId, user |-> m.user, chat |-> m.chat, text |-> m.text,
               profile |-> m.profile]
    /\ nextId' = nextId + 1
    /\ pc' = "save"
    /\ cnt' = 0
    /\ trace' = << >>
    /\ UNCHANGED << clock, db, tasks, deleted, hist, bcast >>

\* 1) if user: save_user(user)
SaveSkip ==
    /\ pc = "save"
    /\ upd.user = NoUser
    /\ pc' = "check"
    /\ UNCHANGED << clock, db, upd, cnt, trace, nextId, tasks, deleted, hist, bcast >>

SaveOk ==
    /\ pc = "save"
    /\ upd.user # NoUser
    /\ users' = save_user(users, upd.user, upd.profile, clock)
    /\ trace' = Append(trace, [op |-> "save_user"])
    /\ pc' = "check"
    /\ UNCHANGED << clock, spam, upd, cnt, nextId, tasks, deleted, hist, bcast >>

\* save_user logging the error and raising it again
SaveFailAborts ==
    /\ pc = "save"
    /\ upd.user # NoUser
    /\ trace' = Append(trace, [op |-> "log", what |-> "save_user error"])
    /\ pc' = "raised"
    /\ UNCHANGED << clock, db, upd, cnt, nextId, tasks, deleted, hist, bcast >>

\* sqlite3 raises inside save_user: caught there, logged
SaveFail ==
    /\ pc = "save"
    /\ upd.user # NoUser
    /\ trace' = Append(trace, [op |-> "log", what |-> "save_user error"])
    /\ pc' = "check"
    /\ UNCHANGED << clock, db, upd, cnt, nextId, tasks, deleted, hist, bcast >>

\* 2) cnt = spam_record_and_check(user.id) with user None: AttributeError
CheckNoUser ==
    /\ pc = "check"
    /\ upd.user = NoUser
    /\ trace' = Append(trace, [op |-> "raise", what |-> "AttributeError"])
    /\ pc' = "raised"
    /\ UNCHANGED << clock, db, upd, cnt, nextId, tasks, deleted, hist, bcast >>

InWindow(u) == run[u] > 0 /\ clock - lastTs[u] <= WindowTicks

CheckOk ==
    /\ pc = "check"
    /\ upd.user # NoUser
    /\ LET u == upd.user
           r == spam_record_and_check(spam, u, clock)
           spamming == IsSpam(r.ret)
       IN  /\ spam' = r.tbl
           /\ cnt' = r.ret
           /\ trace' = trace
                        \o << [op |-> "spam_record_and_check", ret |-> r.ret] >>
                        \o (IF spamming THEN << [op |-> "handle_spam_action"] >>
                            ELSE << >>)
           /\ pc' = IF spamming THEN "warn" ELSE "auto_reply"
           /\ evals' = [evals EXCEPT ![u] = @ + 1]
           /\ lastTs' = [lastTs EXCEPT ![u] = clock]
           /\ run' = [run EXCEPT ![u] = IF InWindow(u) THEN @ + 1 ELSE 1]
           /\ verdicts' = [verdicts EXCEPT ![u] =
                             (IF InWindow(u) THEN @ ELSE 0)
                             + (IF spamming THEN 1 ELSE 0)]
           /\ apart' = [apart EXCEPT ![u] = @ /\ ~InWindow(u)]
           /\ throttled' = IF spamming THEN throttled \cup {u} ELSE throttled
    /\ UNCHANGED << clock, users, upd, nextId, tasks, deleted, bcast >>

\* sqlite3 raises inside spam_record_and_check: nothing catches it
CheckFail ==
    /\ pc = "check"
    /\ upd.user # NoUser
    /\ trace' = Append(trace, [op |-> "raise", what |-> "sqlite3.Error"])
    /\ pc' = "raised"
    /\ UNCHANGED << clock, db, upd, cnt, nextId, tasks, deleted, hist, bcast >>

\* the return after handle_spam_action forgotten
AfterThrottleFallsThrough == "auto_reply"

\* pipeline_handlers after handle_spam_action: return
AfterThrottle == "returned"

\* handle_spam_action: the warning reply comes first
WarnOk ==
    /\ pc = "warn"
    /\ trace' = Append(trace, [op |-> "reply_text", text |-> "warning"])
    /\ pc' = "restrict"
    /\ UNCHANGED << clock, db, upd, cnt, nextId, tasks, deleted, hist, bcast >>

WarnFail ==
    /\ pc = "warn"
    /\ trace' = Append(trace, [op |-> "log", what |-> "mute failed"])
    /\ pc' = AfterThrottle
    /\ UNCHANGED << clock, db, upd, cnt, nextId, tasks, deleted, hist, bcast >>

\* the restriction sent to one fixed chat
RestrictCallFixedChat ==
    [op |-> "restrict_chat_member", chat |-> -100, user |-> upd.user,
     can_send_messages |-> FALSE, until |-> clock + MUTE_MINUTES * 60 * TicksPerSec]

RestrictCall ==
    [op |-> "restrict_chat_member", chat |-> upd.chat, user |-> upd.user,
     can_send_messages |-> FALSE, until |-> clock + MUTE_MINUTES * 60 * TicksPerSec]

RestrictOk ==
    /\ pc = "restrict"
    /\ trace' = Append(trace, RestrictCall)
    /\ pc' = AfterThrottle
    /\ UNCHANGED << clock, db, upd, cnt, nextId, tasks, deleted, hist, bcast >>

RestrictFail ==
    /\ pc = "restrict"
    /\ trace' = trace \o << RestrictCall, [op |-> "log", what |-> "mute failed"] >>
    /\ pc' = AfterThrottle
    /\ UNCHANGED << clock, db, upd, cnt, nextId, tasks, deleted, hist, bcast >>

\* 3) auto_reply_handler
AutoReplyNone ==
    /\ pc = "auto_reply"
    /\ auto_reply(upd.text) = None
    /\ pc' = "schedule"
    /\ UNCHANGED << clock, db, upd, cnt, trace, nextId, tasks, deleted, hist, bcast >>

AutoReplyOk ==
    /\ pc = "auto_reply"
    /\ auto_reply(upd.text) # None
    /\ trace' = Append(trace, [op |-> "reply_text", text |-> auto_reply(upd.text)])
    /\ pc' = "schedule"
    /\ UNCHANGED << clock, db, upd, cnt, nextId, tasks, deleted, hist, bcast >>

\* reply_text raises: nothing catches it
AutoReplyFail ==
    /\ pc = "auto_reply"
    /\ auto_reply(upd.text) # None
    /\ trace' = Append(trace, [op |-> "raise", what |-> "TelegramError"])
    /\ pc' = "raised"
    /\ UNCHANGED << clock, db, upd, cnt, nextId, tasks, deleted, hist, bcast >>

\* 4) asyncio.create_task(auto_delete_handler(update, context))
Schedule ==
    /\ pc = "schedule"
    /\ tasks' = tasks \cup
                  {[msg |-> upd.id, chat |-> upd.chat,
                    due |-> clock + AUTO_DELETE_SECONDS * TicksPerSec]}
    /\ trace' = Append(trace, [op |-> "create_task"])
    /\ pc' = "returned"
    /\ UNCHANGED << clock, db, upd, cnt, nextId, deleted, hist, bcast >>

\* ------------------------------------------------------- deferred deletion
AutoDeleteOk(t) ==
    /\ t \in tasks
    /\ clock >= t.due
    /\ tasks' = tasks \ {t}
    /\ deleted' = deleted \cup {t.msg}
    /\ UNCHANGED << clock, db, pc, upd, cnt, trace, nextId, hist, bcast >>

\* update.message.delete() raises: swallowed
AutoDeleteFail(t) ==
    /\ t \in tasks
    /\ clock >= t.due
    /\ tasks' = tasks \ {t}
    /\ UNCHANGED << clock, db, pc, upd, cnt, trace, nextId, deleted, hist, bcast >>

\* --------------------------------------------------------------- commands
\* /start, in the private chat of the sender
StartUpdates ==
    { [cmd |-> "start", user |-> 2, chat |-> 2,
       profile |-> [username |-> "bobby", first_name |-> "Bo", last_name |-> "B"]],
      [cmd |-> "start", user |-> ADMIN_ID, chat |-> ADMIN_ID,
       profile |-> [username |-> "root", first_name |-> "Ann", last_name |-> None]] }

\* chat_member updates: user is the member whose status changed
MemberUpdates ==
    { [cmd |-> "chat_member", user |-> 2, chat |-> -100, status |-> "MEMBER",
       profile |-> [username |-> "bo2", first_name |-> "Bo", last_name |-> None]],
      [cmd |-> "chat_member", user |-> 1, chat |-> -200, status |-> "ADMINISTRATOR",
       profile |-> [username |-> None, first_name |-> "Alice", last_name |-> "A"]],
      [cmd |-> "chat_member", user |-> 1, chat |-> -100, status |-> "LEFT",
       profile |-> [username |-> "alice", first_name |-> "Al", last_name |-> None]] }

BroadcastUpdates ==
    { [cmd |-> "broadcast", user |-> ADMIN_ID, chat |-> ADMIN_ID, args |-> << "hello" >>],
      [cmd |-> "broadcast", user |-> ADMIN_ID, chat |-> ADMIN_ID, args |-> << >>],
      [cmd |-> "broadcast", user |-> 1, chat |-> 1, args |-> << "hello" >>] }

\* /ban /kick /mute /unmute in a group, written as a reply to target's message
\* or (target = NoUser) not as a reply
ModCmds == { "ban", "kick", "mute", "unmute" }
ModUpdates ==
    { [cmd |-> c, user |-> s, chat |-> -100, target |-> t] :
        c \in ModCmds, s \in {ADMIN_ID, 1}, t \in {2, NoUser} }

\* CommandHandler / ChatMemberHandler: the update goes to its handler
Dispatch(m, entry) ==
    /\ pc \in Idle
    /\ upd' = [id |-> nextId] @@ m
    /\ nextId' = nextId + 1
    /\ pc' = entry
    /\ cnt' = 0
    /\ trace' = << >>
    /\ UNCHANGED << clock, db, tasks, deleted, hist, bcast >>

\* await update.message.reply_text(text) as the handler's last statement: the
\* handler returns, or the call raises and nothing catches it
ReplyText(text) ==
    \E ok \in BOOLEAN :
        /\ trace' = Append(trace, IF ok THEN [op |-> "reply_text", text |-> text]
                                  ELSE [op |-> "raise", what |-> "TelegramError"])
        /\ pc' = IF ok THEN "returned" ELSE "raised"

\* cmd_start
CmdStart(m) == Dispatch(m, "start_save")

StartSaveOk ==
    /\ pc = "start_save"
    /\ users' = save_user(users, upd.user, upd.profile, clock)
    /\ trace' = Append(trace, [op |-> "save_user"])
    /\ pc' = "start_reply"
    /\ UNCHANGED << clock, spam, upd, cnt, nextId, tasks, deleted, hist, bcast >>

StartSaveFail ==
    /\ pc = "start_save"
    /\ trace' = Append(trace, [op |-> "log", what |-> "save_user error"])
    /\ pc' = "start_reply"
    /\ UNCHANGED << clock, db, upd, cnt, nextId, tasks, deleted, hist, bcast >>

StartReply ==
    /\ pc = "start_reply"
    /\ ReplyText("Welcome to SecureBot")
    /\ UNCHANGED << clock, db, upd, cnt, nextId, tasks, deleted, hist, bcast >>

\* chat_member_update
Joined == { "MEMBER", "CREATOR", "ADMINISTRATOR" }

ChatMember(m) == Dispatch(m, "member")

MemberSkip ==
    /\ pc = "member"
    /\ upd.status \notin Joined
    /\ pc' = "returned"
    /\ UNCHANGED << clock, db, upd, cnt, trace, nextId, tasks, deleted, hist, bcast >>

MemberSaveOk ==
    /\ pc = "member"
    /\ upd.status \in Joined
    /\ users' = save_user(users, upd.user, upd.profile, clock)
    /\ trace' = Append(trace, [op |-> "save_user"])
    /\ pc' = "member_welcome"
    /\ UNCHANGED << clock, spam, upd, cnt, nextId, tasks, deleted, hist, bcast >>

MemberSaveFail ==
    /\ pc = "member"
    /\ upd.status \in Joined
    /\ trace' = Append(trace, [op |-> "log", what |-> "save_user error"])
    /\ pc' = "member_welcome"
    /\ UNCHANGED << clock, db, upd, cnt, nextId, tasks, deleted, hist, bcast >>

\* the welcome is sent, or send_message raises: caught and logged
MemberWelcome ==
    /\ pc = "member_welcome"
    /\ \E ok \in BOOLEAN :
           trace' = Append(trace,
                           IF ok THEN [op |-> "send_message", to |-> upd.chat,
                                       text |-> "Welcome", ok |-> TRUE]
                           ELSE [op |-> "log", what |-> "chat_member_update error"])
    /\ pc' = "returned"
    /\ UNCHANGED << clock, db, upd, cnt, nextId, tasks, deleted, hist, bcast >>

\* cmd_broadcast
CmdBroadcast(m) == Dispatch(m, "broadcast")

BroadcastDenied ==
    /\ pc = "broadcast"
    /\ upd.user # ADMIN_ID
    /\ ReplyText("Admin only")
    /\ UNCHANGED << clock, db, upd, cnt, nextId, tasks, deleted, hist, bcast >>

BroadcastUsage ==
    /\ pc = "broadcast"
    /\ upd.user = ADMIN_ID
    /\ upd.args = << >>
    /\ ReplyText("Usage: /broadcast <message>")
    /\ UNCHANGED << clock, db, upd, cnt, nextId, tasks, deleted, hist, bcast >>

\* msg = " ".join(context.args); users = get_all_user_ids(); sent = 0
BroadcastList ==
    /\ pc = "broadcast"
    /\ upd.user = ADMIN_ID
    /\ upd.args # << >>
    /\ bcast' = [todo |-> get_all_user_ids(users), msg |-> upd.args, sent |-> 0]
    /\ pc' = "broadcast_loop"
    /\ UNCHANGED << clock, db, upd, cnt, trace, nextId, tasks, deleted, hist >>

\* sqlite3 raises inside get_all_user_ids: nothing catches it
BroadcastListFail ==
    /\ pc = "broadcast"
    /\ upd.user = ADMIN_ID
    /\ upd.args # << >>
    /\ trace' = Append(trace, [op |-> "raise", what |-> "sqlite3.Error"])
    /\ pc' = "raised"
    /\ UNCHANGED << clock, db, upd, cnt, nextId, tasks, deleted, hist, bcast >>

\* the first failed send ends the loop
BroadcastSendAbortsOnFailure ==
    /\ pc = "broadcast_loop"
    /\ bcast.todo # << >>
    /\ \E ok \in BOOLEAN :
           /\ trace' = Append(trace, [op |-> "send_message", to |-> Head(bcast.todo),
                                      text |-> bcast.msg, ok |-> ok])
           /\ bcast' = [bcast EXCEPT !.todo = IF ok THEN Tail(@) ELSE << >>,
                                     !.sent = IF ok THEN @ + 1 ELSE @]
    /\ UNCHANGED << clock, db, pc, upd, cnt, nextId, tasks, deleted, hist >>

\* one turn of the loop: the send succeeds and is counted, or it raises and
\* the loop goes on
BroadcastSend ==
    /\ pc = "broadcast_loop"
    /\ bcast.todo # << >>
    /\ \E ok \in BOOLEAN :
           /\ trace' = Append(trace, [op |-> "send_message", to |-> Head(bcast.todo),
                                      text |-> bcast.msg, ok |-> ok])
           /\ bcast' = [bcast EXCEPT !.todo = Tail(@),
                                     !.sent = IF ok THEN @ + 1 ELSE @]
    /\ UNCHANGED << clock, db, pc, upd, cnt, nextId, tasks, deleted, hist >>

\* reply_text(f"Sent to {sent} users"); the locals end with the handler
BroadcastReport ==
    /\ pc = "broadcast_loop"
    /\ bcast.todo = << >>
    /\ \E ok \in BOOLEAN :
           /\ trace' = Append(trace,
                              IF ok THEN [op |-> "reply_text", text |-> "Sent to",
                                          n |-> bcast.sent]
                              ELSE [op |-> "raise", what |-> "TelegramError"])
           /\ pc' = IF ok THEN "returned" ELSE "raised"
    /\ bcast' = NoBroadcast
    /\ UNCHANGED << clock, db, upd, cnt, nextId, tasks, deleted, hist >>

\* cmd_ban, cmd_kick, cmd_mute, cmd_unmute
CmdModerate(m) == Dispatch(m, "moderate")

\* a refusal that answers, as cmd_broadcast does
ModRefusedWithReply ==
    /\ pc = "moderate"
    /\ upd.user # ADMIN_ID
    /\ ReplyText("Admin only")
    /\ UNCHANGED << clock, db, upd, cnt, nextId, tasks, deleted, hist, bcast >>

\* if update.effective_user.id != ADMIN_ID: return
ModIgnored ==
    /\ pc = "moderate"
    /\ upd.user # ADMIN_ID
    /\ pc' = "returned"
    /\ UNCHANGED << clock, db, upd, cnt, trace, nextId, tasks, deleted, hist, bcast >>

ModNoTarget ==
    /\ pc = "moderate"
    /\ upd.user = ADMIN_ID
    /\ upd.target = NoUser
    /\ ReplyText("Reply to a user")
    /\ UNCHANGED << clock, db, upd, cnt, nextId, tasks, deleted, hist, bcast >>

\* the platform call of each command; kick calls unban_chat_member
ModCall ==
    CASE upd.cmd = "ban" ->
             [op |-> "ban_chat_member", chat |-> upd.chat, user |-> upd.target]
      [] upd.cmd = "kick" ->
             [op |-> "unban_chat_member", chat |-> upd.chat, user |-> upd.target]
      [] upd.cmd = "mute" ->
             [op |-> "restrict_chat_member", chat |-> upd.chat, user |-> upd.target,
              can_send_messages |-> FALSE]
      [] upd.cmd = "unmute" ->
             [op |-> "restrict_chat_member", chat |-> upd.chat, user |-> upd.target,
              can_send_messages |-> TRUE]

ModCallOk ==
    /\ pc = "moderate"
    /\ upd.user = ADMIN_ID
    /\ upd.target # NoUser
    /\ trace' = Append(trace, ModCall)
    /\ pc' = "moderate_reply"
    /\ UNCHANGED << clock, db, upd, cnt, nextId, tasks, deleted, hist, bcast >>

\* the platform call raises: the except branch answers
ModCallFail ==
    /\ pc = "moderate"
    /\ upd.user = ADMIN_ID
    /\ upd.target # NoUser
    /\ trace' = Append(trace, ModCall)
    /\ pc' = "moderate_failed"
    /\ UNCHANGED << clock, db, upd, cnt, nextId, tasks, deleted, hist, bcast >>

ModReplyOk ==
    /\ pc = "moderate_reply"
    /\ trace' = Append(trace, [op |-> "reply_text", text |-> "Done"])
    /\ pc' = "returned"
    /\ UNCHANGED << clock, db, upd, cnt, nextId, tasks, deleted, hist, bcast >>

\* the confirmation raises inside the try: the except branch answers
ModReplyFail ==
    /\ pc = "moderate_reply"
    /\ pc' = "moderate_failed"
    /\ UNCHANGED << clock, db, upd, cnt, trace, nextId, tasks, deleted, hist, bcast >>

ModFailedReply ==
    /\ pc = "moderate_failed"
    /\ ReplyText("Failed to")
    /\ UNCHANGED << clock, db, upd, cnt, nextId, tasks, deleted, hist, bcast >>

\* ------------------------------------------------------------ the program
Arrive == nextId <= MaxMsgs /\ \E m \in Updates : Receive(m)

Pass == \E g \in Gaps : clock + g <= MaxNowSec * TicksPerSec /\ Tick(g)

Next ==
    \/ Pass
    \/ Arrive
    \/ SaveSkip
    \/ SaveOk
    \/ SaveFail
    \/ CheckNoUser
    \/ CheckOk
    \/ CheckFail
    \/ WarnOk
    \/ WarnFail
    \/ RestrictOk
    \/ RestrictFail
    \/ AutoReplyNone
    \/ AutoReplyOk
    \/ AutoReplyFail
    \/ Schedule
    \/ \E t \in tasks : AutoDeleteOk(t)
    \/ \E t \in tasks : AutoDeleteFail(t)

Spec == Init /\ [][Next]_vars

\* A flood from an empty database: MaxFlood messages of users 1 and 2 in one
\* chat, the clock standing still or moving by the window or just past it; the
\* database works, the warning reply may fail.
FloodArrive == nextId <= MaxFlood /\ \E m \in FloodUpdates : Receive(m)

FloodPass == \E g \in FloodGaps : clock + g <= MaxFloodSec * TicksPerSec /\ Tick(g)

NextFlood ==
    \/ FloodPass
    \/ FloodArrive
    \/ SaveOk
    \/ CheckOk
    \/ WarnOk
    \/ WarnFail
    \/ RestrictOk
    \/ AutoReplyOk
    \/ Schedule

SpecFlood == InitFlood /\ [][NextFlood]_vars

\* The commands and the membership updates beside plain messages, on the
\* registry an earlier run left: nobody, user 1, or users 1, 2 and the admin.
SeedRegistries == { {}, {1}, {1, 2, ADMIN_ID} }

InitCmd ==
    /\ clock = 0
    /\ \E reg \in SeedRegistries :
           users = [u \in reg |-> [username |-> "", first_name |-> "Seed",
                                   last_name |-> "", added_at |-> isoformat(SeedTs)]]
    /\ spam = << >>
    /\ pc = "idle"
    /\ upd = NoUpdate
    /\ cnt = 0
    /\ trace = << >>
    /\ nextId = 1
    /\ tasks = {}
    /\ deleted = {}
    /\ bcast = NoBroadcast
    /\ evals = [u \in Users |-> 0]
    /\ lastTs = [u \in Users |-> 0]
    /\ run = [u \in Users |-> 0]
    /\ verdicts = [u \in Users |-> 0]
    /\ apart = [u \in Users |-> TRUE]
    /\ throttled = {}

CmdPass == clock + TicksPerSec <= MaxCmdSec * TicksPerSec /\ Tick(TicksPerSec)

CmdArrive ==
    /\ nextId <= MaxCmdMsgs
    /\ \/ \E m \in Updates : Receive(m)
       \/ \E m \in StartUpdates : CmdStart(m)
       \/ \E m \in MemberUpdates : ChatMember(m)
       \/ \E m \in BroadcastUpdates : CmdBroadcast(m)
       \/ \E m \in ModUpdates : CmdModerate(m)

NextCmd ==
    \/ CmdPass
    \/ CmdArrive
    \/ SaveSkip
    \/ SaveOk
    \/ SaveFail
    \/ CheckNoUser
    \/ CheckOk
    \/ CheckFail
    \/ AutoReplyNone
    \/ AutoReplyOk
    \/ AutoReplyFail
    \/ Schedule
    \/ StartSaveOk
    \/ StartSaveFail
    \/ StartReply
    \/ MemberSkip
    \/ MemberSaveOk
    \/ MemberSaveFail
    \/ MemberWelcome
    \/ BroadcastDenied
    \/ BroadcastUsage
    \/ BroadcastList
    \/ BroadcastListFail
    \/ BroadcastSend
    \/ BroadcastReport
    \/ ModIgnored
    \/ ModNoTarget
    \/ ModCallOk
    \/ ModCallFail
    \/ ModReplyOk
    \/ ModReplyFail
    \/ ModFailedReply

SpecCmd == InitCmd /\ [][NextCmd]_vars

\* The flood again, every step that stays possible eventually taken.
SpecFloodFair == SpecFlood /\ WF_vars(NextFlood)

\* ==================================================================
\* Properties
\* ==================================================================
Has(e) == \E i \in 1 .. Len(trace) : trace[i] = e
HasOp(o) == \E i \in 1 .. Len(trace) : trace[i].op = o
Pos(o) == CHOOSE i \in 1 .. Len(trace) : trace[i].op = o

Evaluated == HasOp("spam_record_and_check")
Throttling == HasOp("handle_spam_action")
Restricted == HasOp("restrict_chat_member")
Scheduled == HasOp("create_task")
SaveFailed == Has([op |-> "log", what |-> "save_user error"])
AutoReplied ==
    \E i \in 1 .. Len(trace) :
        trace[i].op = "reply_text" /\ trace[i].text # "warning"
Finished == pc \in {"returned", "raised"} /\ upd.id > 0

C2_EvaluateTransition ==
    [][CheckOk =>
        LET u == upd.user
            fresh == [count |-> 1, last_ts |-> isoformat(clock)]
        IN  /\ DOMAIN spam' = DOMAIN spam \cup {u}
            /\ \A v \in DOMAIN spam \ {u} : spam'[v] = spam[v]
            /\ fromisoformat(spam'[u].last_ts) = clock
            /\ u \notin DOMAIN spam => spam'[u] = fresh /\ cnt' = 1
            /\ u \in DOMAIN spam =>
                  IF clock - fromisoformat(spam[u].last_ts) > 10 * TicksPerSec
                  THEN spam'[u] = fresh /\ cnt' = 1
                  ELSE /\ spam'[u].count = spam[u].count + 1
                       /\ cnt' = spam[u].count + 1]_vars

C2_Witness ==
    /\ pc = "auto_reply"
    /\ upd.user = 1
    /\ cnt = 1
    /\ evals[1] = 3
    /\ clock = WindowTicks + 1

\* ------------------------------------------------------------------ C3
\* C3: a message whose evaluation returned at least SPAM_LIMIT gets no keyword
\* auto-reply and no deferred deletion, and its handler goes nowhere but
\* through the throttle action to its return.
C3_ThrottleShortCircuits ==
    (Evaluated /\ cnt >= 6) =>
        /\ pc \in {"warn", "restrict", "returned"}
        /\ ~AutoReplied
        /\ ~Scheduled
        /\ \A t \in tasks : t.msg # upd.id
        /\ upd.id \notin deleted

C3_Witness ==
    /\ Evaluated
    /\ cnt >= 6
    /\ pc = "returned"
    /\ Restricted
    /\ tasks # {}

\* ------------------------------------------------------------------ C4
\* C4: when the handler of a message whose evaluation returned at least
\* SPAM_LIMIT has returned, the registry save, the evaluation and the
\* restriction of this user in this chat (no sending, until ten minutes after
\* the call) have happened, in that order.
C4_RestrictionBeforeReturn ==
    (Evaluated /\ cnt >= 6 /\ pc = "returned") =>
        /\ trace[1].op = "save_user" \/ SaveFailed
        /\ Pos("spam_record_and_check") = 2
        /\ Restricted
        /\ Pos("restrict_chat_member") > 2
        /\ LET r == trace[Pos("restrict_chat_member")]
           IN  /\ r.chat = upd.chat
               /\ r.user = upd.user
               /\ r.can_send_messages = FALSE
               /\ r.until - 600 * TicksPerSec \in lastTs[upd.user] .. clock

\* ------------------------------------------------------------------ C5
\* C5: an evaluation exactly 10 seconds after the user's last one finds the
\* window not expired: the count grows by one and is not reset to 1.
C5_BoundaryNotExpired ==
    [][(CheckOk /\ evals[upd.user] > 0
               /\ clock - lastTs[upd.user] = 10 * TicksPerSec) =>
          /\ spam'[upd.user].count = spam[upd.user].count + 1
          /\ cnt' = spam[upd.user].count + 1
          /\ cnt' > 1]_vars

C5_Witness ==
    /\ pc = "auto_reply"
    /\ upd.user = 2
    /\ clock = 10 * TicksPerSec
    /\ evals[2] = 2
    /\ cnt = 2

\* ------------------------------------------------------------------ C6
\* C6 as stated: a gap of exactly 10 seconds resets the count to 1, a gap
\* just below it increments.
C6_BoundaryResets ==
    [][(CheckOk /\ evals[upd.user] > 0) =>
          /\ clock - lastTs[upd.user] = 10 * TicksPerSec => cnt' = 1
          /\ clock - lastTs[upd.user] < 10 * TicksPerSec =>
                 cnt' = spam[upd.user].count + 1]_vars

\* C6 amended: a gap of exactly 10 seconds increments the count, as every
\* shorter gap does; only a gap above 10 seconds resets the count to 1.
C6_BoundaryIncrements ==
    [][(CheckOk /\ evals[upd.user] > 0) =>
          /\ clock - lastTs[upd.user] <= 10 * TicksPerSec =>
                 /\ cnt' = spam[upd.user].count + 1
                 /\ spam'[upd.user].count = cnt'
          /\ clock - lastTs[upd.user] > 10 * TicksPerSec =>
                 /\ cnt' = 1
                 /\ spam'[upd.user].count = 1]_vars

C6_Witness ==
    /\ pc = "auto_reply"
    /\ upd.user = 2
    /\ clock = 10 * TicksPerSec + 1
    /\ evals[2] = 2
    /\ cnt = 1

\* ------------------------------------------------------------------ C7
\* C7: while every gap between a user's consecutive messages has exceeded the
\* window, the stored count is 1, the value just returned is 1 and the user
\* was never throttled.
C7_SparseNeverCounts ==
    \A u \in Users :
        (apart[u] /\ evals[u] > 0) =>
            /\ u \in DOMAIN spam
            /\ spam[u].count = 1
            /\ u \notin throttled
            /\ (upd.user = u /\ Evaluated) => cnt = 1 /\ ~Throttling

C7_Witness ==
    /\ apart[1]
    /\ evals[1] = 3
    /\ upd.user = 1
    /\ Evaluated
    /\ clock = 2 * (10 * TicksPerSec + 1)

\* ------------------------------------------------------------------ C8
\* C8: the handler of a message without a sender ends without an error and
\* without any effect.
C8_NoSenderAbortsSilently ==
    (upd.id > 0 /\ upd.user = NoUser) =>
        /\ pc # "raised"
        /\ \A i \in 1 .. Len(trace) : trace[i].op = "raise"
        /\ \A t \in tasks : t.msg # upd.id

\* ------------------------------------------------------------------ C9
\* C9: a storage failure in the counter evaluation leaves the counter record
\* as it was and does not end the handler with an uncaught error.
C9_CounterFailureCaught ==
    [][CheckFail => spam' = spam /\ pc' # "raised"]_vars

\* ------------------------------------------------------------------ C10
\* C10: after a failed registry save the handler goes on: it has left the save
\* step, it does not finish before the evaluation step, and when it returns
\* it has either called the throttle action or scheduled the deletion.
C10_SaveFailureDoesNotAbort ==
    SaveFailed =>
        /\ pc # "save"
        /\ trace[1] = [op |-> "log", what |-> "save_user error"]
        /\ Finished =>
               /\ Len(trace) >= 2
               /\ trace[2].op \in {"spam_record_and_check", "raise"}
        /\ pc = "raised" =>
               trace[Len(trace)] \in
                   { [op |-> "raise", what |-> "sqlite3.Error"],
                     [op |-> "raise", what |-> "TelegramError"] }
                   /\ (Evaluated \/ Len(trace) = 2)
        /\ pc = "returned" => (Throttling \/ Scheduled)
        /\ (Evaluated /\ cnt >= 6) => Throttling
        /\ (Evaluated /\ cnt < 6) => ~Throttling

C10_Witness ==
    /\ SaveFailed
    /\ pc = "returned"
    /\ Throttling
    /\ Restricted

\* ------------------------------------------------------------------ C16
\* C16: every counter record has a count of at least 1 and a last_ts that is
\* the time of the user's most recent counted message, every user with a
\* counted message has a record, and no step removes a record.
RecordsWellFormed ==
    /\ \A u \in DOMAIN spam :
           /\ spam[u].count >= 1
           /\ CanParse(spam[u].last_ts)
           /\ fromisoformat(spam[u].last_ts) = lastTs[u]
    /\ \A u \in Users : evals[u] > 0 => u \in DOMAIN spam

C16_RecordTracksLastMessage ==
    []RecordsWellFormed /\ [][DOMAIN spam \subseteq DOMAIN spam']_vars

C16_Witness ==
    /\ DOMAIN spam = {1, 2}
    /\ spam[1] = [count |-> 2, last_ts |-> << 9, 999999 >>]
    /\ spam[2] = [count |-> 1, last_ts |-> << 0 >>]
    /\ clock = WindowTicks - 1

\* ------------------------------------------------------------------ C17
\* C17: in the throttle branch the restriction is issued before the warning
\* reply, so a throttle action that has returned has issued the restriction
\* whatever became of the warning.
C17_RestrictionBeforeWarning ==
    /\ (Throttling /\ pc = "returned") => Restricted
    /\ (Restricted /\ Has([op |-> "reply_text", text |-> "warning"])) =>
           Pos("restrict_chat_member") < Pos("reply_text")

\* ------------------------------------------------------------------ C12
\* C12: the handler of a message whose evaluation returned less than
\* SPAM_LIMIT does not end without having scheduled the deferred deletion of
\* that message.
C12_DeletionScheduledUnlessThrottled ==
    (Finished /\ Evaluated /\ cnt < 6) => Scheduled

\* ------------------------------------------------------------------ C18
\* C18: a step taken while user A's message is handled changes no counter
\* record and no registry record of another user, adds no record but A's and
\* changes no registry record that exists; and each stored count is the
\* length of that user's own current run, whatever other users sent between.
OwnRunCounted == \A u \in DOMAIN spam : spam[u].count = run[u]

OthersUntouched ==
    /\ \A v \in DOMAIN spam \ {upd.user} :
           (v \in DOMAIN spam' /\ spam'[v] = spam[v])
    /\ \A w \in DOMAIN users :
           (w \in DOMAIN users' /\ users'[w] = users[w])
    /\ DOMAIN spam' \subseteq DOMAIN spam \cup {upd.user}
    /\ DOMAIN users' \subseteq DOMAIN users \cup {upd.user}

C18_OnlyOwnRecordsChange == []OwnRunCounted /\ [][OthersUntouched]_vars

C18_Witness ==
    /\ upd.id = 3
    /\ upd.user = 1
    /\ Evaluated
    /\ spam[1] = [count |-> 2, last_ts |-> << 9, 999999 >>]
    /\ 2 \in DOMAIN spam
    /\ spam[2] = [count |-> 1, last_ts |-> << 9, 999999 >>]
    /\ \E t \in tasks : t.msg = 1 /\ t.chat = -200
    /\ \E t \in tasks : t.msg = 2 /\ t.due = 22 * TicksPerSec - 1

\* ------------------------------------------------------------------ C19
\* C19: the value returned for a user's message is the length of the run of
\* that user's consecutive messages ending at it whose gaps are all at most
\* 10 seconds, and every message of the run from the 6th on is throttled: the
\* throttle verdicts of a run are its length less 5.
C19_ReturnsRunLength ==
    \A u \in Users :
        /\ (upd.user = u /\ Evaluated) =>
               /\ cnt = run[u]
               /\ run[u] >= 6 <=> Throttling
        /\ verdicts[u] = IF run[u] >= 6 THEN run[u] - 5 ELSE 0

\* messages at 0 s and 10 s and five more at 20 s: the run is 7 long, six of
\* the messages lie in the trailing 10 seconds, the last two are throttled
C19_Witness ==
    /\ clock = 2 * WindowTicks
    /\ upd.user = 1
    /\ Evaluated
    /\ cnt = 7
    /\ evals[2] = 0
    /\ verdicts[1] = 2
    /\ \E t \in tasks : t.msg = 1 /\ t.due = 12 * TicksPerSec
    /\ \E t \in tasks : t.msg = 2 /\ t.due = 22 * TicksPerSec
    /\ \E t \in tasks : t.msg = 3 /\ t.due = 32 * TicksPerSec

\* ------------------------------------------------------------------ C20
\* C20: the count that triggers a restriction is the user's run over all
\* chats, and the one restriction a throttled message causes names the chat
\* and the sender of that message.
C20_RestrictsInTriggeringChat ==
    Restricted =>
        /\ cnt >= 6
        /\ cnt = run[upd.user]
        /\ \A i \in 1 .. Len(trace) :
               trace[i].op = "restrict_chat_member" =>
                   /\ trace[i].chat = upd.chat
                   /\ trace[i].user = upd.user
                   /\ i = Pos("restrict_chat_member")

C20_Witness ==
    /\ Restricted
    /\ upd.chat = -200
    /\ cnt = 6
    /\ evals[2] = 0
    /\ \E t \in tasks : t.chat = -100 /\ t.msg = upd.id - 1

\* ------------------------------------------------------------------ C15
\* C15 as stated: two messages of one user race on the counter and the stored
\* count ends below the number of messages counted in the window.
LostUpdate == \E u \in DOMAIN spam : spam[u].count < run[u]

IsCmd(c) == "cmd" \in DOMAIN upd /\ upd.cmd = c

FirstWriteWins ==
    /\ \A id \in DOMAIN users :
           (id \in DOMAIN users' /\ users'[id] = users[id])
    /\ \A n \in DOMAIN users' \ DOMAIN users :
           /\ n = upd.user
           /\ users'[n].username =
                  (IF upd.profile.username = None THEN "" ELSE upd.profile.username)
           /\ users'[n].first_name =
                  (IF upd.profile.first_name = None THEN "" ELSE upd.profile.first_name)
           /\ users'[n].last_name =
                  (IF upd.profile.last_name = None THEN "" ELSE upd.profile.last_name)
           /\ CanParse(users'[n].added_at)
           /\ fromisoformat(users'[n].added_at) = clock

C11_RegistryFirstWriteWins == [][FirstWriteWins]_vars

\* user 2 registered by a message at 0 s, then saved again by /start a second
\* later under another name
C11_Witness ==
    /\ IsCmd("start")
    /\ upd.user = 2
    /\ HasOp("save_user")
    /\ clock = TicksPerSec
    /\ 2 \in DOMAIN users
    /\ users[2] = [username |-> "bo", first_name |-> "Bo", last_name |-> "",
                   added_at |-> << 0 >>]

\* ------------------------------------------------------------------ C13
\* C13: while the administrator's broadcast loops, the users sent to and the
\* users still to come are the registry, each once, and sent counts the sends
\* that succeeded; the final reply comes after a send to every registered
\* user, failed or not, and carries the number of sends that succeeded.
Sends == SelectSeq(trace, LAMBDA e : e.op = "send_message")
Delivered == Cardinality({ i \in 1 .. Len(Sends) : Sends[i].ok })
Recipients == { Sends[i].to : i \in 1 .. Len(Sends) }

C13_BroadcastReportsDeliveries ==
    (IsCmd("broadcast") /\ upd.user = ADMIN_ID /\ upd.args # << >>) =>
        /\ pc = "broadcast_loop" =>
               /\ Recipients \cup { bcast.todo[j] : j \in 1 .. Len(bcast.todo) }
                      = DOMAIN users
               /\ Len(Sends) + Len(bcast.todo) = Cardinality(DOMAIN users)
               /\ bcast.sent = Delivered
        /\ \A i \in 1 .. Len(trace) :
               trace[i].op = "reply_text" =>
                   /\ i = Len(trace)
                   /\ trace[i].n = Delivered
                   /\ Recipients = DOMAIN users
                   /\ Len(Sends) = Cardinality(DOMAIN users)
        /\ pc = "returned" => HasOp("reply_text")

C13_Witness ==
    /\ IsCmd("broadcast")
    /\ pc = "returned"
    /\ Len(Sends) = 3
    /\ Sends[1].ok /\ ~Sends[2].ok /\ Sends[3].ok
    /\ trace[4] = [op |-> "reply_text", text |-> "Sent to", n |-> 2]

\* ------------------------------------------------------------------ C14
\* C14: the handler of a ban, kick, mute or unmute command sent by anyone but
\* the administrator does nothing at all and returns; a ban, unban or restrict
\* call in such a handler means the administrator sent the command as a reply
\* to the target.
ModOps == { "ban_chat_member", "unban_chat_member", "restrict_chat_member" }

C14_OnlyAdminModerates ==
    ("cmd" \in DOMAIN upd /\ upd.cmd \in ModCmds) =>
        /\ upd.user # ADMIN_ID => trace = << >> /\ pc \in {"moderate", "returned"}
        /\ \A i \in 1 .. Len(trace) :
               trace[i].op \in ModOps =>
                   /\ upd.user = ADMIN_ID
                   /\ trace[i].user = upd.target
                   /\ trace[i].user # NoUser
                   /\ trace[i].chat = upd.chat

C14_Witness ==
    /\ IsCmd("ban")
    /\ upd.user = 1
    /\ upd.target = 2
    /\ pc = "returned"
    /\ trace = << >>

====
